---- MODULE Spec2Model ----
(***************************************************************************)
(* audiocat: header probe (WAV / MP3) and the two stitch engines.          *)
(* Buffers are sequences of bytes 0..255; offsets are 0-based as in the    *)
(* source, so byte k of a buffer b is b[k + 1].                            *)
(***************************************************************************)
EXTENDS Integers, Sequences, FiniteSets, TLC

\* ------------------------------------------------------------------ bounds
MaxSources == 2
\* openSource / closeSource calls made directly by a caller of the io module.
MaxHandles == 2
MaxCloses == 3
\* Payload bytes of the large sources: a little more than one 64 KiB chunk.
BigLen == 65600

\* ------------------------------------------------------- program constants
HeadWindow == 8192
Mp3ScanWindow == 4096
WavHeaderBytes == 44
SamplesPerFrame == 1152
AssetMs == 100

Undefined == -1

\* --------------------------------------------------------- byte primitives
Min(a, b) == IF a < b THEN a ELSE b
Max(a, b) == IF a > b THEN a ELSE b

\* Buffer.subarray(start, end): both ends clamped to the buffer.
Subarray(buf, start, end) ==
  LET s == Min(start, Len(buf))
      e == Min(Max(end, s), Len(buf))
  IN  [i \in 1..(e - s) |-> buf[s + i]]

\* buf.toString('ascii', start, end): Node's ascii decoding clears the high
\* bit of every byte before building the string.
Ascii(buf, start, end) ==
  [i \in 1..(Min(end, Len(buf)) - start) |-> buf[start + i] % 128]

ReadUInt8(buf, off) == buf[off + 1]
ReadUInt16LE(buf, off) == buf[off + 1] + 256 * buf[off + 2]
ReadUInt32LE(buf, off) ==
  buf[off + 1] + 256 * buf[off + 2] + 65536 * buf[off + 3] + 16777216 * buf[off + 4]

\* writeUInt16LE / writeUInt32LE of an in-range value (fraction truncated).
LE16(v) == <<v % 256, (v \div 256) % 256>>
LE32(v) == <<v % 256, (v \div 256) % 256, (v \div 65536) % 256, (v \div 16777216) % 256>>

Zeros(n) == [i \in 1..n |-> 0]

StrRIFF == <<82, 73, 70, 70>>
StrWAVE == <<87, 65, 86, 69>>
StrFmt == <<102, 109, 116, 32>>
StrData == <<100, 97, 116, 97>>
StrID3 == <<73, 68, 51>>

\* ------------------------------------------------------------- probe (WAV)
NoInfo ==
  [tag |-> "null", container |-> "none", sampleRate |-> 0, channels |-> 0,
   bitsPerSample |-> 0, dataBytes |-> Undefined, bitrateKbps |-> Undefined,
   id3v2Bytes |-> Undefined]
Thrown(kind) == [NoInfo EXCEPT !.tag = kind]

WavInfo(sr, ch, bits, dataBytes) ==
  [NoInfo EXCEPT !.tag = "ok", !.container = "wav", !.sampleRate = sr,
                 !.channels = ch, !.bitsPerSample = bits, !.dataBytes = dataBytes]

\* The chunk walk of parseWavHeader.  acc carries fmtFound, dataBytes and the
\* three parameters; the result is acc at the end of the walk, or a null /
\* RangeError outcome.
RECURSIVE WavWalk(_, _, _)
WavWalk(buf, offset, acc) ==
  IF offset + 8 > Len(buf) THEN acc
  ELSE LET id == Ascii(buf, offset, offset + 4)
           size == ReadUInt32LE(buf, offset + 4)
           next == offset + 8 + size
       IN  IF id = StrFmt THEN
             IF offset + 24 > Len(buf) THEN [acc EXCEPT !.tag = "RangeError"]
             ELSE IF ReadUInt16LE(buf, offset + 8) # 1 THEN [acc EXCEPT !.tag = "null"]
             ELSE WavWalk(buf, next,
                          [acc EXCEPT !.fmtFound = TRUE,
                                      !.channels = ReadUInt16LE(buf, offset + 10),
                                      !.sampleRate = ReadUInt32LE(buf, offset + 12),
                                      !.bitsPerSample = ReadUInt16LE(buf, offset + 22)])
           ELSE IF id = StrData THEN WavWalk(buf, next, [acc EXCEPT !.dataBytes = size])
           ELSE WavWalk(buf, next, acc)

\* Variant: a header with a fmt chunk is returned whatever its fields hold.
ParseWavHeaderAnyFields(buf) ==
  IF Len(buf) < 44 THEN NoInfo
  ELSE IF Ascii(buf, 0, 4) # StrRIFF THEN NoInfo
  ELSE IF Ascii(buf, 8, 12) # StrWAVE THEN NoInfo
  ELSE LET w == WavWalk(buf, 12, [tag |-> "end", fmtFound |-> FALSE, dataBytes |-> Undefined,
                                  sampleRate |-> 0, channels |-> 0, bitsPerSample |-> 0])
       IN  IF w.tag = "RangeError" THEN Thrown("RangeError")
           ELSE IF w.tag = "null" THEN NoInfo
           ELSE IF ~w.fmtFound THEN NoInfo
           ELSE WavInfo(w.sampleRate, w.channels, w.bitsPerSample, w.dataBytes)

ParseWavHeader(buf) ==
  IF Len(buf) < 44 THEN NoInfo
  ELSE IF Ascii(buf, 0, 4) # StrRIFF THEN NoInfo
  ELSE IF Ascii(buf, 8, 12) # StrWAVE THEN NoInfo
  ELSE LET w == WavWalk(buf, 12, [tag |-> "end", fmtFound |-> FALSE, dataBytes |-> Undefined,
                                  sampleRate |-> 0, channels |-> 0, bitsPerSample |-> 0])
       IN  IF w.tag = "RangeError" THEN Thrown("RangeError")
           ELSE IF w.tag = "null" THEN NoInfo
           ELSE IF ~w.fmtFound \/ w.sampleRate = 0 \/ w.channels = 0 \/ w.bitsPerSample = 0
                THEN NoInfo
           ELSE WavInfo(w.sampleRate, w.channels, w.bitsPerSample, w.dataBytes)

\* ------------------------------------------------------------- probe (MP3)
SkipId3Size(buf) ==
  IF Len(buf) < 10 THEN 0
  ELSE IF Ascii(buf, 0, 3) # StrID3 THEN 0
  ELSE 10 + (ReadUInt8(buf, 6) % 128) * 2097152 + (ReadUInt8(buf, 7) % 128) * 16384
          + (ReadUInt8(buf, 8) % 128) * 128 + (ReadUInt8(buf, 9) % 128)

\* b1 === 0xff && (b2 & 0xe0) === 0xe0
IsSync(buf, i) == ReadUInt8(buf, i) = 255 /\ ReadUInt8(buf, i + 1) \div 32 = 7

VersionBits(buf, i) == (ReadUInt8(buf, i + 1) \div 8) % 4
LayerBits(buf, i) == (ReadUInt8(buf, i + 1) \div 2) % 4
BitrateIndex(buf, i) == (ReadUInt8(buf, i + 2) \div 16) % 16
SampleRateIndex(buf, i) == (ReadUInt8(buf, i + 2) \div 4) % 4
ChannelMode(buf, i) == (ReadUInt8(buf, i + 3) \div 64) % 4

\* The candidates parseMp3Header does not skip with `continue`.
Mp3Accepts(buf, i) ==
  /\ IsSync(buf, i)
  /\ LayerBits(buf, i) = 1
  /\ BitrateIndex(buf, i) # 15
  /\ SampleRateIndex(buf, i) # 3

SampleRateTable(versionBits) ==
  IF versionBits = 3 THEN <<44100, 48000, 32000>> ELSE <<22050, 24000, 16000>>

BitrateTable(idx) ==
  IF idx = 0 THEN Undefined
  ELSE <<32, 40, 48, 56, 64, 80, 96, 112, 128, 160, 192, 224, 256, 320>>[idx]

Mp3Info(sr, ch, kbps, id3) ==
  [NoInfo EXCEPT !.tag = "ok", !.container = "mp3", !.sampleRate = sr,
                 !.channels = ch, !.bitrateKbps = kbps, !.id3v2Bytes = id3]

ParseMp3Header(buf, start) ==
  LET maxScan == Min(Len(buf), start + Mp3ScanWindow)
      hits == {i \in start..(maxScan - 4) : Mp3Accepts(buf, i)}
  IN  IF hits = {} THEN NoInfo
      ELSE LET i == CHOOSE h \in hits : \A g \in hits : h <= g
           IN  Mp3Info(SampleRateTable(VersionBits(buf, i))[SampleRateIndex(buf, i) + 1],
                       IF ChannelMode(buf, i) = 3 THEN 1 ELSE 2,
                       BitrateTable(BitrateIndex(buf, i)),
                       start)

\* probe() on the head bytes already read.
ProbeHead(head) ==
  LET wav == ParseWavHeader(head)
  IN  IF wav.tag = "RangeError" THEN wav
      ELSE IF wav.tag = "ok" THEN wav
      ELSE LET mp3 == ParseMp3Header(head, SkipId3Size(head))
           IN  IF mp3.tag = "ok" THEN mp3 ELSE Thrown("UnsupportedFormat")

\* ------------------------------------------------------------- io adapter
\* A source is bytes in memory or a path; a path may name no file.
BufferSource(bytes) == [kind |-> "buffer", exists |-> TRUE, bytes |-> bytes]
FileSource(bytes) == [kind |-> "file", exists |-> TRUE, bytes |-> bytes]
MissingFile == [kind |-> "file", exists |-> FALSE, bytes |-> <<>>]
\* A file that ends in hole zero bytes after bytes.  Only the count of these
\* zero bytes is kept; the size and every read see them as bytes of the file.
SparseFile(bytes, hole) == [kind |-> "file", exists |-> TRUE, bytes |-> bytes, hole |-> hole]
\* Bytes in a Uint8Array that is not a Buffer.
Uint8Source(bytes) == [kind |-> "uint8array", exists |-> TRUE, bytes |-> bytes]

\* fs.openSync returns the lowest descriptor not in use.
LowestFree(open) ==
  CHOOSE n \in 3..(3 + Cardinality(open)) : n \notin open /\ \A m \in 3..(n - 1) : m \in open

\* openSource: statSync / openSync throw for a missing file.
OpenSource(source, open) ==
  IF source.kind = "file" THEN
    IF ~source.exists THEN [ok |-> FALSE, opened |-> <<>>, fds |-> open]
    ELSE [ok |-> TRUE,
          opened |-> [kind |-> "file",
                      size |-> Len(source.bytes)
                               + (IF "hole" \in DOMAIN source THEN source.hole ELSE 0),
                      fd |-> LowestFree(open), bytes |-> source.bytes],
          fds |-> open \cup {LowestFree(open)}]
  ELSE [ok |-> TRUE,
        opened |-> [kind |-> "buffer", size |-> Len(source.bytes),
                    fd |-> Undefined, bytes |-> source.bytes],
        fds |-> open]

\* Variant: closing one file source closes every descriptor of the process.
CloseSourceEverything(o, open) ==
  IF o.kind = "file" /\ o.fd # Undefined THEN {} ELSE open

\* closeSource: closeSync on the recorded descriptor, errors swallowed.
CloseSource(o, open) ==
  IF o.kind = "file" /\ o.fd # Undefined THEN open \ {o.fd} ELSE open

RECURSIVE CloseAll(_, _)
CloseAll(os, open) ==
  IF os = <<>> THEN open ELSE CloseAll(Tail(os), CloseSource(Head(os), open))

\* A buffer kept as its bytes up to the last non-zero byte and the number of
\* zero bytes that follow them.
RECURSIVE TrailingZeros(_, _)
TrailingZeros(buf, k) == IF k = 0 \/ buf[k] # 0 THEN Len(buf) - k ELSE TrailingZeros(buf, k - 1)
Pack(buf) ==
  [bytes |-> SubSeq(buf, 1, Len(buf) - TrailingZeros(buf, Len(buf))),
   hole |-> TrailingZeros(buf, Len(buf))]
Unpack(p) == IF p.hole = 0 THEN p.bytes ELSE p.bytes \o Zeros(p.hole)
BufLen(p) == Len(p.bytes) + p.hole
ZeroBuf(n) == [bytes |-> <<>>, hole |-> n]

\* The bytes of a read of length bytes at offset, both ends clamped to the
\* size of the source, as a packed buffer: what the stored bytes hold of the
\* range, then the zero bytes the range takes from the hole.
ReadPacked(o, offset, length) ==
  LET s == Min(offset, o.size)
      e == Min(Max(offset + length, s), o.size)
      lit == Subarray(o.bytes, s, e)
      p == Pack(lit)
  IN  [bytes |-> p.bytes, hole |-> p.hole + (e - s) - Len(lit)]

\* Variant: the end of the range is the length, not offset + length.
ReadBytesLengthAsEnd(o, offset, length) ==
  IF o.size = Len(o.bytes) THEN Subarray(o.bytes, offset, length)
  ELSE Unpack(ReadPacked(o, offset, length - offset))

\* readBytes: subarray of the buffer, or a positional read that is short at
\* end of file.
ReadBytes(o, offset, length) ==
  IF o.size = Len(o.bytes) THEN Subarray(o.bytes, offset, offset + length)
  ELSE Unpack(ReadPacked(o, offset, length))

\* fs.writeSync(fd, p) on a file kept as a list of packed segments: zero bytes
\* lengthen the hole of the last segment, other bytes follow it.
FileAppend(f, p) ==
  LET n == Len(f.segs)
  IN  IF BufLen(p) = 0 THEN f
      ELSE IF n = 0 THEN [f EXCEPT !.segs = <<p>>]
      ELSE IF p.bytes = <<>> THEN [f EXCEPT !.segs[n].hole = @ + p.hole]
      ELSE IF f.segs[n].hole = 0
      THEN [f EXCEPT !.segs[n] = [bytes |-> @.bytes \o p.bytes, hole |-> p.hole]]
      ELSE [f EXCEPT !.segs = Append(@, p)]

\* The bytes of a list of packed buffers, in order.
RECURSIVE Flatten(_)
Flatten(ps) == IF ps = <<>> THEN <<>> ELSE Unpack(Head(ps)) \o Flatten(Tail(ps))

\* sources.map((s) => openSource(s)): the first throw abandons the map and
\* the handles already opened by it.
RECURSIVE OpenAll(_, _, _)
OpenAll(sources, acc, open) ==
  IF sources = <<>> THEN [ok |-> TRUE, opened |-> acc, fds |-> open]
  ELSE LET r == OpenSource(Head(sources), open)
       IN  IF ~r.ok THEN [ok |-> FALSE, opened |-> acc, fds |-> open]
           ELSE OpenAll(Tail(sources), Append(acc, r.opened), r.fds)

\* probe(source): open, read the head, classify, close in finally.
Probe(source, open) ==
  LET r == OpenSource(source, open)
  IN  IF ~r.ok THEN [info |-> Thrown("IOError"), fds |-> open]
      ELSE [info |-> ProbeHead(ReadBytes(r.opened, 0, HeadWindow)),
            fds |-> CloseSource(r.opened, r.fds)]

\* ------------------------------------------------------------ WAV engine
ChunkSize == 65536

\* Variant: the whole remainder of a part is read at once.
ToReadAll(remaining) == remaining

\* const toRead = Math.min(chunkSize, remaining)
ToRead(remaining) == Min(ChunkSize, remaining)

\* Variant: the finally of the output descriptor is missing.
CloseOutNothing(fd, open) == open

\* finally { fs.closeSync(fd) } of the output descriptor.
CloseOut(fd, open) == open \ {fd}

\* checkInt of writeUInt32LE / writeUInt16LE: a value outside the field throws.
OutOfRange32(v) == v < 0 \/ v \div 65536 > 65535
OutOfRange16(v) == v < 0 \/ v > 65535

\* Variant: blockAlign written into the bitsPerSample field as well.
CreateWavHeaderBlockAlignTwice(totalDataBytes, info) ==
  LET byteRate == (info.sampleRate * info.channels * info.bitsPerSample) \div 8
      blockAlign == (info.channels * info.bitsPerSample) \div 8
  IN  IF \/ OutOfRange32(36 + totalDataBytes) \/ OutOfRange32(byteRate)
         \/ OutOfRange16(blockAlign)
      THEN [ok |-> FALSE, bytes |-> <<>>]
      ELSE [ok |-> TRUE,
            bytes |-> StrRIFF \o LE32(36 + totalDataBytes) \o StrWAVE \o StrFmt
                      \o LE32(16) \o LE16(1) \o LE16(info.channels)
                      \o LE32(info.sampleRate) \o LE32(byteRate) \o LE16(blockAlign)
                      \o LE16(blockAlign) \o StrData \o LE32(totalDataBytes)]

\* createWavHeader; ok = FALSE stands for the RangeError of an out-of-range write.
CreateWavHeader(totalDataBytes, info) ==
  LET byteRate == (info.sampleRate * info.channels * info.bitsPerSample) \div 8
      blockAlign == (info.channels * info.bitsPerSample) \div 8
  IN  IF \/ OutOfRange32(36 + totalDataBytes) \/ OutOfRange32(byteRate)
         \/ OutOfRange16(blockAlign)
      THEN [ok |-> FALSE, bytes |-> <<>>]
      ELSE [ok |-> TRUE,
            bytes |-> StrRIFF \o LE32(36 + totalDataBytes) \o StrWAVE \o StrFmt
                      \o LE32(16) \o LE16(1) \o LE16(info.channels)
                      \o LE32(info.sampleRate) \o LE32(byteRate) \o LE16(blockAlign)
                      \o LE16(info.bitsPerSample) \o StrData \o LE32(totalDataBytes)]

\* Variant: bits taken for bytes (the division by 8 is missing).
BytesPerMsBits(info) == (info.sampleRate * info.channels * info.bitsPerSample) \div 1000

\* bytesPerMs = Math.floor((sampleRate * channels * (bitsPerSample / 8)) / 1000)
BytesPerMs(info) == (info.sampleRate * info.channels * info.bitsPerSample) \div 8000

\* The scan for the 'data' chunk in the head of one source; start = -1 when
\* the walk leaves the head without finding it.
RECURSIVE FindDataChunk(_, _)
FindDataChunk(head, offset) ==
  IF offset + 8 > Len(head) THEN [start |-> -1, length |-> 0]
  ELSE IF Ascii(head, offset, offset + 4) = StrData
       THEN [start |-> offset + 8, length |-> ReadUInt32LE(head, offset + 4)]
       ELSE FindDataChunk(head, offset + 8 + ReadUInt32LE(head, offset + 4))

WavParts(os) == [i \in 1..Len(os) |-> FindDataChunk(ReadBytes(os[i], 0, HeadWindow), 12)]

\* JavaScript numbers hold every integer below 2^53.  The byte totals of
\* stitchWav can pass 2^31, so they are kept as two limbs, hi * 65536 + lo
\* with 0 <= lo < 65536.
WideOf(n) == [hi |-> n \div 65536, lo |-> n % 65536]
Narrow(w) == w.hi * 65536 + w.lo
WideAdd(a, b) ==
  [hi |-> a.hi + b.hi + (a.lo + b.lo) \div 65536, lo |-> (a.lo + b.lo) % 65536]

\* Variant: the product wraps at 32 bits.
WideMulWrap32(a, b) ==
  LET low == a * (b % 65536)
  IN  [hi |-> (a * (b \div 65536) + low \div 65536) % 65536, lo |-> low % 65536]

\* a * b, exact for 0 <= a < 2^15 and 0 <= b < 2^31.
WideMul(a, b) ==
  LET low == a * (b % 65536)
  IN  [hi |-> a * (b \div 65536) + low \div 65536, lo |-> low % 65536]

\* Variant: a gap follows the last part too.
GapAfterEvery(i, n, gapMs, bytesPerMs) ==
  IF gapMs > 0 THEN WideMul(bytesPerMs, gapMs) ELSE WideOf(0)

\* if (i < opened.length - 1 && gapMs > 0): the bytes of one gap after part i,
\* bytesPerMs * gapMs.
GapAfter(i, n, gapMs, bytesPerMs) ==
  IF i < n /\ gapMs > 0 THEN WideMul(bytesPerMs, gapMs) ELSE WideOf(0)

RECURSIVE TotalData(_, _, _, _)
TotalData(ps, i, gapMs, bytesPerMs) ==
  IF i > Len(ps) THEN WideOf(0)
  ELSE WideAdd(WideAdd(WideOf(ps[i].length), GapAfter(i, Len(ps), gapMs, bytesPerMs)),
               TotalData(ps, i + 1, gapMs, bytesPerMs))

\* createWavHeader(totalData, firstInfo): the first write, of 36 + totalData,
\* throws when the value is above 0xFFFFFFFF.
HeaderFor(total, info) ==
  IF WideAdd(WideOf(36), total).hi > 65535 THEN [ok |-> FALSE, bytes |-> <<>>]
  ELSE CreateWavHeader(Narrow(total), info)

\* The buffer-output branch: header, then each part and its gap.
RECURSIVE WavBody(_, _, _, _, _)
WavBody(os, ps, i, gapMs, bytesPerMs) ==
  IF i > Len(ps) THEN <<>>
  ELSE ReadBytes(os[i], ps[i].start, ps[i].length)
       \o Zeros(Narrow(GapAfter(i, Len(ps), gapMs, bytesPerMs)))
       \o WavBody(os, ps, i + 1, gapMs, bytesPerMs)

\* ------------------------------------------------------------ MP3 engine
\* Variant: the scan starts at the first byte, inside the tag.
FindFirstFrameOffsetFromZero(buf, start) ==
  LET hits == {i \in 0..(Len(buf) - 4) : IsSync(buf, i)}
  IN  IF hits = {} THEN -1 ELSE CHOOSE h \in hits : \A g \in hits : h <= g

\* findFirstFrameOffset: the first sync pattern at or after start, else -1.
FindFirstFrameOffset(buf, start) ==
  LET hits == {i \in start..(Len(buf) - 4) : IsSync(buf, i)}
  IN  IF hits = {} THEN -1 ELSE CHOOSE h \in hits : \A g \in hits : h <= g

\* Variant: the default rounding rounds down.
GapFramesNearestDown(gapMs, sampleRate, gapRounding) ==
  LET num == gapMs * sampleRate
      den == SamplesPerFrame * 1000
      frames == IF gapRounding = "ceil" THEN (num + den - 1) \div den ELSE num \div den
  IN  Max(frames, 0)

\* frames = round/floor/ceil(gapMs / ((1152 / sampleRate) * 1000)), clamped at 0.
\* gapMs / frameDurMs = gapMs * sampleRate / 1152000.
GapFrames(gapMs, sampleRate, gapRounding) ==
  LET num == gapMs * sampleRate
      den == SamplesPerFrame * 1000
      frames == IF gapRounding = "floor" THEN num \div den
                ELSE IF gapRounding = "ceil" THEN (num + den - 1) \div den
                ELSE (2 * num + den) \div (2 * den)
  IN  Max(frames, 0)

\* repeats = Math.max(1, Math.ceil((frames * frameDurMs) / 100)).
SilenceRepeats(frames, sampleRate) ==
  LET num == frames * SamplesPerFrame * 1000
      den == sampleRate * AssetMs
  IN  Max(1, (num + den - 1) \div den)

\* The bundled catalog assets/silence/mp3/<rate>/<mono|stereo>/<kbps>k.mp3.
BundledRates == {44100, 48000}
BundledBitrates == {128, 192, 320}

\* One bundled clip: frames of the catalog entry's own parameters.
SilenceClip(sampleRate, channels, kbps) ==
  <<255, 251,
    16 * (CHOOSE k \in 1..14 : BitrateTable(k) = kbps)
      + 4 * (CHOOSE r \in 0..2 : SampleRateTable(3)[r + 1] = sampleRate),
    IF channels = 1 THEN 192 ELSE 0,
    0, 0>>

\* loadSilenceAsset.  An override that is a Buffer is returned as it is; any
\* other override goes through fs.readFileSync(String(opts.silence)): a path
\* is read, and a Uint8Array names the file whose path is its decimal listing
\* ("255,251,..."), which no file system of the model holds.  Without an
\* override: the catalog entry, or a throw.
LoadSilenceAsset(info, silence) ==
  IF silence # <<>> THEN
    IF silence[1].kind = "buffer" THEN [ok |-> TRUE, err |-> "", bytes |-> silence[1].bytes]
    ELSE IF silence[1].kind = "file" /\ silence[1].exists
         THEN [ok |-> TRUE, err |-> "", bytes |-> silence[1].bytes]
    ELSE [ok |-> FALSE, err |-> "IOError", bytes |-> <<>>]
  ELSE LET channels == IF info.channels = 1 THEN 1 ELSE 2
           kbps == IF info.bitrateKbps = Undefined THEN 128 ELSE info.bitrateKbps
       IN  IF info.sampleRate \in BundledRates /\ kbps \in BundledBitrates
           THEN [ok |-> TRUE, err |-> "",
                 bytes |-> SilenceClip(info.sampleRate, channels, kbps)]
           ELSE [ok |-> FALSE, err |-> "SilenceAssetNotFound", bytes |-> <<>>]

RECURSIVE Repeat(_, _)
Repeat(buf, n) == IF n <= 0 THEN <<>> ELSE buf \o Repeat(buf, n - 1)

\* Variant: keepFirstId3 applied to every source, not only the first.
PayloadStartKeepAll(i, keepFirstId3, frameOff) == IF keepFirstId3 THEN 0 ELSE frameOff

\* keepFirstId3 && i === 0 ? 0 : frameOff
PayloadStart(i, keepFirstId3, frameOff) == IF keepFirstId3 /\ i = 1 THEN 0 ELSE frameOff

\* Variant: silence follows the last part too.
Mp3GapAfterEvery(i, n, gapMs) == gapMs > 0

\* if (i < opened.length - 1 && gapMs > 0): silence follows part i of n.
Mp3GapAfter(i, n, gapMs) == i < n /\ gapMs > 0

\* The parts loop of stitchMp3 from source i on: the
\* buffers of the parts array, each packed, or the first error thrown.
RECURSIVE Mp3Parts(_, _, _, _)
Mp3Parts(os, i, c, info) ==
  IF i > Len(os) THEN [err |-> "", list |-> <<>>]
  ELSE LET head == ReadBytes(os[i], 0, HeadWindow)
           frameOff == FindFirstFrameOffset(head, SkipId3Size(head))
           start == PayloadStart(i, c.keepFirstId3, frameOff)
           chunk == ReadPacked(os[i], start, os[i].size - start)
           gap == Mp3GapAfter(i, Len(os), c.gapMs)
           silence == LoadSilenceAsset(info, c.silence)
           frames == GapFrames(c.gapMs, info.sampleRate, c.gapRounding)
           repeats == IF gap /\ frames > 0
                      THEN SilenceRepeats(frames, info.sampleRate)
                      ELSE 0
           rest == Mp3Parts(os, i + 1, c, info)
       IN  IF frameOff < 0 THEN [err |-> "FrameSyncNotFound", list |-> <<>>]
           ELSE IF gap /\ ~silence.ok THEN [err |-> silence.err, list |-> <<>>]
           ELSE IF rest.err # "" THEN rest
           ELSE [err |-> "",
                 list |-> <<chunk>> \o [r \in 1..repeats |-> Pack(silence.bytes)]
                          \o rest.list]

\* ------------------------------------------------------------------ inputs
ListChunk == <<76, 73, 83, 84>> \o LE32(2) \o <<9, 9>>

\* A RIFF/WAVE file: magic, one fmt chunk, optional chunks before the data
\* chunk, the data chunk with its declared size, and whatever follows.
WavBytes(riff, wave, fmtCode, ch, sr, bits, pre, declared, payload, tail) ==
  riff \o LE32(36 + declared) \o wave \o StrFmt \o LE32(16) \o LE16(fmtCode)
  \o LE16(ch) \o LE32(sr) \o LE32((sr * ch * bits) \div 8) \o LE16((ch * bits) \div 8)
  \o LE16(bits) \o pre \o StrData \o LE32(declared) \o payload \o tail

PlainWav(ch, sr, bits, declared, payload) ==
  WavBytes(StrRIFF, StrWAVE, 1, ch, sr, bits, <<>>, declared, payload, <<>>)

WavA == BufferSource(PlainWav(1, 44100, 16, 4, <<1, 2, 3, 4>>))
\* On disk, with a chunk before the data chunk and one after it.
WavB == FileSource(WavBytes(StrRIFF, StrWAVE, 1, 1, 44100, 16, ListChunk, 2, <<5, 6>>, ListChunk))
WavRate == BufferSource(PlainWav(1, 48000, 16, 2, <<7, 8>>))
WavChannels == BufferSource(PlainWav(2, 44100, 16, 4, <<7, 8, 9, 10>>))
WavBits == BufferSource(PlainWav(1, 44100, 8, 2, <<7, 8>>))
\* The data chunk declares 8 bytes, 3 are present.
WavTruncated == BufferSource(PlainWav(1, 44100, 16, 8, <<11, 12, 13>>))
WavNoData ==
  BufferSource(StrRIFF \o LE32(36) \o StrWAVE \o StrFmt \o LE32(16) \o LE16(1) \o LE16(1)
               \o LE32(44100) \o LE32(88200) \o LE16(2) \o LE16(16)
               \o <<76, 73, 83, 84>> \o LE32(0))
\* The magic with the high bit of every byte set.
WavHighBit ==
  BufferSource(WavBytes(<<210, 201, 198, 198>>, <<215, 193, 214, 197>>, 1, 1, 44100, 16,
                        <<>>, 2, <<18, 19>>, <<>>))
\* A header whose only chunk after fmt has the id 'data' with the high bit of
\* every byte set, and a LIST chunk that pushes the data chunk past the head.
WavHighData ==
  BufferSource(StrRIFF \o LE32(40) \o StrWAVE \o StrFmt \o LE32(16) \o LE16(1) \o LE16(1)
               \o LE32(44100) \o LE32(88200) \o LE16(2) \o LE16(16)
               \o <<228, 225, 244, 225>> \o LE32(4) \o <<21, 22, 23, 24>>)
WavLateData ==
  BufferSource(WavBytes(StrRIFF, StrWAVE, 1, 1, 44100, 16,
                        <<76, 73, 83, 84>> \o LE32(HeadWindow) \o Zeros(HeadWindow),
                        2, <<25, 26>>, <<>>))
\* IEEE-float (format 3) files; the first carries an MPEG frame header in its data.
WavFloatSync ==
  BufferSource(WavBytes(StrRIFF, StrWAVE, 3, 1, 44100, 32, <<>>, 4, <<255, 251, 144, 192>>, <<>>))
WavFloat ==
  BufferSource(WavBytes(StrRIFF, StrWAVE, 3, 1, 44100, 32, <<>>, 4, <<1, 2, 3, 4>>, <<>>))
\* PCM headers with a zero sample rate, channel count or sample width.
WavZeroRate == BufferSource(PlainWav(1, 0, 16, 2, <<1, 2>>))
WavZeroChannels == BufferSource(PlainWav(0, 44100, 16, 2, <<1, 2>>))
WavZeroBits == BufferSource(PlainWav(1, 44100, 0, 2, <<1, 2>>))
\* 44 bytes that end right after the id and size of the fmt chunk.
WavShortFmt ==
  BufferSource(StrRIFF \o LE32(36) \o StrWAVE \o <<76, 73, 83, 84>> \o LE32(16) \o Zeros(16)
               \o StrFmt \o LE32(16))

Id3Tag(size) == StrID3 \o <<3, 0, 0, 0, 0, 0, size>> \o Zeros(size)
\* MPEG-1 Layer III frame header: bitrate index, sample-rate index, channel mode.
FrameHeader(bitrateIdx, rateIdx, mode) == <<255, 251, 16 * bitrateIdx + 4 * rateIdx, 64 * mode>>

Mp3A == BufferSource(FrameHeader(9, 0, 3) \o <<1, 2>>)
Mp3Tagged == FileSource(Id3Tag(3) \o FrameHeader(9, 0, 3) \o <<3, 4>>)
\* An ID3v2 tag whose two payload bytes look like a frame sync.
Mp3TagSync ==
  BufferSource(StrID3 \o <<3, 0, 0, 0, 0, 0, 2>> \o <<255, 251>> \o FrameHeader(9, 0, 3)
               \o <<7, 8>>)
\* Leading bytes with a sync pattern of a reserved layer before the real frame.
Mp3Junk == BufferSource(<<0, 255, 224, 0, 0>> \o FrameHeader(9, 0, 3) \o <<5>>)
\* Seven bytes: the letters ID3 and one frame header.
Mp3Tiny == BufferSource(StrID3 \o FrameHeader(9, 0, 3))
Mp3Rate == BufferSource(FrameHeader(9, 1, 3) \o <<6>>)
Mp3Stereo == BufferSource(FrameHeader(9, 0, 0) \o <<6>>)
Mp3Kbps == BufferSource(FrameHeader(11, 0, 3) \o <<6>>)
Mp3Free == BufferSource(FrameHeader(0, 0, 3) \o <<6>>)
Mp332k == BufferSource(FrameHeader(9, 2, 3) \o <<6>>)
\* A frame header with bitrate index 15, alone and before a decodable one.
Mp3Bitrate15 == BufferSource(FrameHeader(15, 0, 3) \o <<6>>)
Mp3SkipBad == BufferSource(FrameHeader(15, 0, 3) \o FrameHeader(9, 0, 3))
\* Files whose payload, BigLen zero bytes, is longer than one chunk of the
\* copy loop: PCM silence, and one frame header before a run of zeros.
WavBig == SparseFile(PlainWav(1, 44100, 16, BigLen, <<>>), BigLen)
Mp3Big == SparseFile(FrameHeader(9, 0, 3), BigLen)
NotAudio == BufferSource(<<110, 111, 116, 32, 97, 117, 100, 105, 111>>)
\* A frame header that starts after the 8192-byte head.
LateSync == BufferSource(Zeros(HeadWindow) \o FrameHeader(9, 0, 3))
\* A frame header inside the head but beyond the 4096-byte scan.
FarSync == BufferSource(Zeros(Mp3ScanWindow) \o FrameHeader(9, 0, 3))
\* Sync patterns the header decoder rejects: Layer I, bitrate 15, rate 3.
BadSyncs == BufferSource(<<255, 255, 144, 0, 255, 251, 240, 0, 255, 251, 156, 0, 0>>)

WavPool ==
  {WavA, WavB, WavRate, WavChannels, WavBits, WavTruncated, WavNoData, MissingFile, Mp3A}
Mp3Pool ==
  {Mp3A, Mp3Tagged, Mp3Junk, Mp3Tiny, Mp3Rate, Mp3Stereo, Mp3Kbps, Mp3Free, Mp332k,
   MissingFile, WavA}
ProbePool ==
  WavPool \cup Mp3Pool
    \cup {WavHighBit, WavFloatSync, WavFloat, NotAudio, LateSync, FarSync, BadSyncs,
          WavShortFmt, WavZeroRate, WavZeroChannels, WavZeroBits, Mp3Bitrate15, Mp3SkipBad}

GapChoices == {0, 5}
\* 10 ms is less than half a frame, 100 ms is between 3 and 5 frames.
Mp3GapChoices == {0, 10, 100}
SilenceOverride == <<255, 251, 144, 192, 42>>
\* options.silence: Buffer | Uint8Array | string.
SilenceOverrides ==
  {BufferSource(SilenceOverride), Uint8Source(SilenceOverride), FileSource(SilenceOverride),
   MissingFile}

Lists(pool, n) == UNION {[1..k -> pool] : k \in 0..n}

WavCalls ==
  {[op |-> "stitchWav", sources |-> ss, gapMs |-> g, output |-> o,
    keepFirstId3 |-> TRUE, gapRounding |-> "nearest", silence |-> <<>>] :
     ss \in Lists(WavPool, MaxSources), g \in GapChoices, o \in {"buffer", "file"}}
\* Options of stitchMp3: without a gap neither gapRounding nor silence is
\* consulted; with a gap every rounding mode, and the override once.
Mp3Options ==
  {[gapMs |-> 0, keepFirstId3 |-> k, gapRounding |-> "nearest", silence |-> <<>>] :
     k \in BOOLEAN}
  \cup {[gapMs |-> g, keepFirstId3 |-> k, gapRounding |-> r, silence |-> <<>>] :
          g \in Mp3GapChoices \ {0}, k \in BOOLEAN, r \in {"nearest", "floor", "ceil"}}
  \cup {[gapMs |-> 100, keepFirstId3 |-> TRUE, gapRounding |-> "nearest",
         silence |-> <<ov>>] : ov \in SilenceOverrides}
Mp3Calls ==
  {[op |-> "stitchMp3", sources |-> ss, gapMs |-> o.gapMs, output |-> out,
    keepFirstId3 |-> o.keepFirstId3, gapRounding |-> o.gapRounding, silence |-> o.silence] :
     ss \in Lists(Mp3Pool, MaxSources), o \in Mp3Options, out \in {"buffer", "file"}}
ProbeCalls ==
  {[op |-> "probe", sources |-> <<s>>, gapMs |-> 0, output |-> "buffer",
    keepFirstId3 |-> TRUE, gapRounding |-> "nearest", silence |-> <<>>] : s \in ProbePool}

\* stitch forwards its options to the engine it selects.
StitchPool ==
  {WavA, WavB, WavBits, Mp3A, Mp3Tagged, Mp3Rate, NotAudio, WavShortFmt, MissingFile}
StitchCalls ==
  {[op |-> "stitch", sources |-> ss, gapMs |-> g, output |-> out,
    keepFirstId3 |-> TRUE, gapRounding |-> "nearest", silence |-> <<>>] :
     ss \in Lists(StitchPool, MaxSources), g \in GapChoices, out \in {"buffer", "file"}}

\* stitchWav on sources whose data chunk the scan may miss.
WavChunkPool == {WavA, WavHighData, WavLateData}
WavChunkCalls ==
  {[op |-> "stitchWav", sources |-> ss, gapMs |-> 0, output |-> o,
    keepFirstId3 |-> TRUE, gapRounding |-> "nearest", silence |-> <<>>] :
     ss \in Lists(WavChunkPool, MaxSources), o \in {"buffer", "file"}}

\* stitchMp3 on tagged sources, with and without keepFirstId3.
Mp3TagPool == {Mp3A, Mp3TagSync}
Mp3TagCalls ==
  {[op |-> "stitchMp3", sources |-> ss, gapMs |-> 0, output |-> "buffer",
    keepFirstId3 |-> k, gapRounding |-> "nearest", silence |-> <<>>] :
     ss \in Lists(Mp3TagPool, MaxSources), k \in BOOLEAN}

\* Calls that stream to a file or return a buffer: truncated, tagged and large
\* sources; gaps of 0 ms, of 745 ms (88 * 745 bytes, a little more than one
\* chunk), of 48806446 ms (88 * 48806446 = 2^32 - 48 bytes) and of 48806447 ms
\* (2^32 + 40 bytes).
StreamCalls ==
  {[op |-> "stitchWav", sources |-> ss, gapMs |-> g, output |-> "file",
    keepFirstId3 |-> TRUE, gapRounding |-> "nearest", silence |-> <<>>] :
     ss \in Lists({WavTruncated, WavBig}, MaxSources),
     g \in {0, 745, 48806446, 48806447}}
  \cup {[op |-> "stitchWav", sources |-> ss, gapMs |-> g, output |-> "buffer",
         keepFirstId3 |-> TRUE, gapRounding |-> "nearest", silence |-> <<>>] :
          ss \in Lists({WavA, WavTruncated}, MaxSources), g \in {0, 1, 48806447}}
  \cup {[op |-> "stitchMp3", sources |-> ss, gapMs |-> g, output |-> "file",
         keepFirstId3 |-> TRUE, gapRounding |-> "nearest", silence |-> <<>>] :
          ss \in Lists({Mp3Tagged, Mp3Big}, MaxSources), g \in {0, 100}}
  \cup {[op |-> "stitchMp3", sources |-> ss, gapMs |-> g, output |-> "buffer",
         keepFirstId3 |-> TRUE, gapRounding |-> "nearest", silence |-> <<>>] :
          ss \in Lists({Mp3A, Mp3Tagged}, MaxSources), g \in {0, 100}}

\* Calls made while another call is in flight: stitchWav to a file of its
\* own, stitchMp3 to a buffer, probe.
ConcWavPool == {WavA, WavB, MissingFile}
ConcMp3Pool == {Mp3A, Mp3Tagged}
ConcCalls ==
  {[op |-> "stitchWav", sources |-> ss, gapMs |-> 5, output |-> "file",
    keepFirstId3 |-> TRUE, gapRounding |-> "nearest", silence |-> <<>>] :
     ss \in Lists(ConcWavPool, MaxSources)}
  \cup {[op |-> "stitchMp3", sources |-> ss, gapMs |-> 0, output |-> "buffer",
          keepFirstId3 |-> TRUE, gapRounding |-> "nearest", silence |-> <<>>] :
           ss \in Lists(ConcMp3Pool, MaxSources)}
  \cup {[op |-> "probe", sources |-> <<s>>, gapMs |-> 0, output |-> "buffer",
          keepFirstId3 |-> TRUE, gapRounding |-> "nearest", silence |-> <<>>] :
           s \in {WavB, Mp3Tagged}}

\* ------------------------------------------------------------------- state
VARIABLES
  pc,         \* position of the call: idle, called, an await point, copy loop, done
  call,       \* the operation, its sources and options
  pending,    \* result of the probe being awaited
  firstInfo,  \* probe result of sources[0]
  idx,        \* 1-based index of the source being validated
  opened,     \* the OpenedSource list of the engine
  parts,      \* stitchWav: start / length of each data chunk; stitchMp3: the buffers
  cur,        \* stitchWav file output: loop cursor
  outFd,      \* descriptor of the output file, Undefined when not open
  fds,        \* descriptors open in the process
  result,     \* outcome of the call
  outFile,    \* the file at the output path
  other,      \* the invocation that is suspended at an await while this one runs
  prev,       \* outcome of the caller's earlier call with the same sources
  closed      \* indices into opened of the closeSource calls made by the caller, in order

vars ==
  <<pc, call, pending, firstInfo, idx, opened, parts, cur, outFd, fds, result, outFile,
    other, prev, closed>>
\* What no function of the library touches: the caller's bookkeeping.
aside == <<other, prev, closed>>

NoCall ==
  [op |-> "none", sources |-> <<>>, gapMs |-> 0, output |-> "buffer",
   keepFirstId3 |-> TRUE, gapRounding |-> "nearest", silence |-> <<>>]
NoResult == [status |-> "none", err |-> "", out |-> <<>>, info |-> NoInfo]
NoCursor == [i |-> 0, phase |-> "end", remaining |-> 0, position |-> 0, gapBytes |-> 0]
NoFile == [exists |-> FALSE, segs |-> <<>>]
\* fs.writeFileSync / fs.openSync(path, 'w'): the file exists and is empty.
EmptyFile == [exists |-> TRUE, segs |-> <<>>]
\* mixed: the two invocations of the process were in flight at the same time.
NoPrev ==
  [set |-> FALSE, mixed |-> FALSE, op |-> "none", result |-> NoResult, outFile |-> NoFile]
\* The per-invocation state: locals of the async function and its output path.
Context(p, c, pe, fi, i, o, ps, cu, ofd, r, f) ==
  [pc |-> p, call |-> c, pending |-> pe, firstInfo |-> fi, idx |-> i, opened |-> o,
   parts |-> ps, cur |-> cu, outFd |-> ofd, result |-> r, outFile |-> f]
Idle ==
  Context("idle", NoCall, NoInfo, NoInfo, 0, <<>>, <<>>, NoCursor, Undefined, NoResult, NoFile)

Init ==
  /\ pc = "idle"
  /\ call = NoCall
  /\ pending = NoInfo
  /\ firstInfo = NoInfo
  /\ idx = 0
  /\ opened = <<>>
  /\ parts = <<>>
  /\ cur = NoCursor
  /\ outFd = Undefined
  /\ fds = {}
  /\ result = NoResult
  /\ outFile = NoFile
  /\ other = Idle
  /\ prev = NoPrev
  /\ closed = <<>>

\* The caller invokes one of the exported functions.
Invoke ==
  /\ pc = "idle"
  /\ \E c \in WavCalls \cup WavChunkCalls \cup Mp3Calls \cup Mp3TagCalls \cup ProbeCalls
              \cup StitchCalls :
       call' = c
  /\ pc' = "called"
  /\ UNCHANGED <<pending, firstInfo, idx, opened, parts, cur, outFd, fds, result, outFile>>
  /\ UNCHANGED aside

\* The call throws: the promise rejects with the error.
Throw(kind) == result' = [NoResult EXCEPT !.status = "error", !.err = kind] /\ pc' = "done"
\* The call returns bytes (buffer output) or nothing (file output).
Return(bytes) == result' = [NoResult EXCEPT !.status = "ok", !.out = bytes] /\ pc' = "done"

\* probe(source) as its own call.
ProbeCall ==
  /\ pc = "called" /\ call.op = "probe"
  /\ LET p == Probe(call.sources[1], fds)
     IN  /\ fds' = p.fds
         /\ IF p.info.tag = "ok"
            THEN result' = [NoResult EXCEPT !.status = "ok", !.info = p.info] /\ pc' = "done"
            ELSE Throw(p.info.tag)
  /\ UNCHANGED <<call, pending, firstInfo, idx, opened, parts, cur, outFd, outFile>>
  /\ UNCHANGED aside

\* -------------------------------------------------------------- stitchWav
\* Variant: an empty list is answered with an empty result.
WavEntryEmptyReturns ==
  /\ IF call.sources = <<>>
     THEN Return(<<>>) /\ UNCHANGED <<pending, fds>>
     ELSE LET p == Probe(call.sources[1], fds)
          IN  /\ fds' = p.fds
              /\ IF p.info.tag = "ok"
                 THEN pending' = p.info /\ pc' = "wavFirst" /\ UNCHANGED result
                 ELSE Throw(p.info.tag) /\ UNCHANGED pending
  /\ UNCHANGED <<call, firstInfo, idx, opened, parts, cur, outFd, outFile>>
  /\ UNCHANGED aside

\* The body of stitchWav up to its first await: the empty-list check and the
\* first probe.
WavEntry ==
  /\ IF call.sources = <<>>
     THEN Throw("NoSources") /\ UNCHANGED <<pending, fds>>
     ELSE LET p == Probe(call.sources[1], fds)
          IN  /\ fds' = p.fds
              /\ IF p.info.tag = "ok"
                 THEN pending' = p.info /\ pc' = "wavFirst" /\ UNCHANGED result
                 ELSE Throw(p.info.tag) /\ UNCHANGED pending
  /\ UNCHANGED <<call, firstInfo, idx, opened, parts, cur, outFd, outFile>>
  /\ UNCHANGED aside

\* stitchWav called by the caller.
WavStart ==
  /\ pc = "called" /\ call.op = "stitchWav"
  /\ WavEntry

\* After the first probe: container check, sources.map(openSource) outside
\* the try, then the first probe of the validation loop, up to its await.
WavAfterFirst ==
  /\ pc = "wavFirst"
  /\ firstInfo' = pending
  /\ IF pending.container # "wav"
     THEN Throw("NotWav") /\ UNCHANGED <<pending, idx, opened, fds>>
     ELSE LET o == OpenAll(call.sources, <<>>, fds)
          IN  IF ~o.ok
              THEN Throw("IOError") /\ fds' = o.fds /\ UNCHANGED <<pending, idx, opened>>
              ELSE LET p == Probe(call.sources[1], o.fds)
                   IN  /\ opened' = o.opened
                       /\ IF p.info.tag = "ok"
                          THEN /\ pending' = p.info /\ idx' = 1 /\ pc' = "wavLoop"
                               /\ fds' = p.fds /\ UNCHANGED result
                          ELSE /\ Throw(p.info.tag) /\ fds' = CloseAll(o.opened, p.fds)
                               /\ UNCHANGED <<pending, idx>>
  /\ UNCHANGED <<call, parts, cur, outFd, outFile>>
  /\ UNCHANGED aside

\* The cursor of the file-output loops, moved past every loop that has
\* nothing left to do: while (remaining > 0), while (gapBytes > 0), for (i).
RECURSIVE Advance(_, _, _, _)
Advance(c, ps, gapMs, bytesPerMs) ==
  IF c.phase = "copy" THEN
    IF c.remaining > 0 THEN c
    ELSE Advance([c EXCEPT !.phase = "gap",
                           !.gapBytes = Narrow(GapAfter(c.i, Len(ps), gapMs, bytesPerMs))],
                 ps, gapMs, bytesPerMs)
  ELSE IF c.phase = "gap" THEN
    IF c.gapBytes > 0 THEN c
    ELSE IF c.i >= Len(ps) THEN [c EXCEPT !.phase = "end"]
    ELSE Advance([i |-> c.i + 1, phase |-> "copy", remaining |-> ps[c.i + 1].length,
                  position |-> ps[c.i + 1].start, gapBytes |-> 0],
                 ps, gapMs, bytesPerMs)
  ELSE c

\* After validation: locate the data chunks, build the header, and either
\* return the buffer or write the header and enter the copy loops.  The
\* finally of the engine closes every opened source on return and on throw.
WavAssemble ==
  LET ps == WavParts(opened)
      bytesPerMs == BytesPerMs(firstInfo)
      hdr == HeaderFor(TotalData(ps, 1, call.gapMs, bytesPerMs), firstInfo)
      c0 == Advance([i |-> 1, phase |-> "copy", remaining |-> ps[1].length,
                     position |-> ps[1].start, gapBytes |-> 0],
                    ps, call.gapMs, bytesPerMs)
      fd == LowestFree(fds)
  IN  IF \E i \in 1..Len(ps) : ps[i].start < 0
      THEN /\ Throw("DataChunkNotFound") /\ fds' = CloseAll(opened, fds)
           /\ UNCHANGED <<parts, cur, outFd, outFile>>
      ELSE IF ~hdr.ok
      THEN /\ Throw("RangeError") /\ fds' = CloseAll(opened, fds)
           /\ UNCHANGED <<parts, cur, outFd, outFile>>
      ELSE IF call.output = "buffer"
      THEN /\ Return(hdr.bytes \o WavBody(opened, ps, 1, call.gapMs, bytesPerMs))
           /\ fds' = CloseAll(opened, fds)
           /\ UNCHANGED <<parts, cur, outFd, outFile>>
      ELSE /\ parts' = ps
           /\ outFile' = FileAppend(EmptyFile, Pack(hdr.bytes))
           /\ cur' = c0
           /\ IF c0.phase = "end"
              THEN Return(<<>>) /\ fds' = CloseAll(opened, fds) /\ UNCHANGED outFd
              ELSE pc' = "wavCopy" /\ outFd' = fd /\ fds' = fds \cup {fd} /\ UNCHANGED result

\* Variant: bitsPerSample is not compared.
WavMismatchNoBits(info, first) ==
  \/ info.sampleRate # first.sampleRate
  \/ info.channels # first.channels

\* info.sampleRate !== firstInfo.sampleRate || info.channels !== ... ||
\* info.bitsPerSample !== firstInfo.bitsPerSample
WavMismatch(info, first) ==
  \/ info.sampleRate # first.sampleRate
  \/ info.channels # first.channels
  \/ info.bitsPerSample # first.bitsPerSample

\* Resumption after the probe of source idx in the validation loop.
WavLoop ==
  /\ pc = "wavLoop"
  /\ IF pending.container # "wav"
     THEN /\ Throw("NotAllWav") /\ fds' = CloseAll(opened, fds)
          /\ UNCHANGED <<pending, idx, parts, cur, outFd, outFile>>
     ELSE IF WavMismatch(pending, firstInfo)
     THEN /\ Throw("ParameterMismatch") /\ fds' = CloseAll(opened, fds)
          /\ UNCHANGED <<pending, idx, parts, cur, outFd, outFile>>
     ELSE IF idx < Len(call.sources)
     THEN LET p == Probe(call.sources[idx + 1], fds)
          IN  /\ IF p.info.tag = "ok"
                 THEN /\ pending' = p.info /\ idx' = idx + 1 /\ fds' = p.fds
                      /\ UNCHANGED <<pc, result>>
                 ELSE /\ Throw(p.info.tag) /\ fds' = CloseAll(opened, p.fds)
                      /\ UNCHANGED <<pending, idx>>
              /\ UNCHANGED <<parts, cur, outFd, outFile>>
     ELSE WavAssemble /\ UNCHANGED <<pending, idx>>
  /\ UNCHANGED <<call, firstInfo, opened>>
  /\ UNCHANGED aside

\* One iteration of a file-output loop: read at most a chunk of payload and
\* append it to the output, or append at most a chunk of gap zeros.  When the
\* last loop ends, the output descriptor and the sources are closed.
WavCopyStep ==
  /\ pc = "wavCopy"
  /\ LET chunk == IF cur.phase = "copy"
                  THEN ReadPacked(opened[cur.i], cur.position, ToRead(cur.remaining))
                  ELSE ZeroBuf(Min(ChunkSize, cur.gapBytes))
         stepped == IF cur.phase = "copy"
                    THEN [cur EXCEPT !.position = @ + BufLen(chunk),
                                     !.remaining = @ - BufLen(chunk)]
                    ELSE [cur EXCEPT !.gapBytes = @ - BufLen(chunk)]
         next == Advance(stepped, parts, call.gapMs, BytesPerMs(firstInfo))
     IN  /\ outFile' = FileAppend(outFile, chunk)
         /\ cur' = next
         /\ IF next.phase = "end"
            THEN /\ Return(<<>>) /\ outFd' = Undefined
                 /\ fds' = CloseAll(opened, CloseOut(outFd, fds))
            ELSE UNCHANGED <<pc, result, outFd, fds>>
  /\ UNCHANGED <<call, pending, firstInfo, idx, opened, parts>>
  /\ UNCHANGED aside

\* -------------------------------------------------------------- stitchMp3
\* The body of stitchMp3 up to its first await: the empty-list check and the
\* first probe.
Mp3Entry ==
  /\ IF call.sources = <<>>
     THEN Throw("NoSources") /\ UNCHANGED <<pending, fds>>
     ELSE LET p == Probe(call.sources[1], fds)
          IN  /\ fds' = p.fds
              /\ IF p.info.tag = "ok"
                 THEN pending' = p.info /\ pc' = "mp3First" /\ UNCHANGED result
                 ELSE Throw(p.info.tag) /\ UNCHANGED pending
  /\ UNCHANGED <<call, firstInfo, idx, opened, parts, cur, outFd, outFile>>
  /\ UNCHANGED aside

\* stitchMp3 called by the caller.
Mp3Start ==
  /\ pc = "called" /\ call.op = "stitchMp3"
  /\ Mp3Entry

\* After validation: sources.map(openSource) outside the try, the parts
\* loop, then the buffer is returned or the output file is opened for the
\* write loop.
Mp3Assemble(info) ==
  LET o == OpenAll(call.sources, <<>>, fds)
      ps == Mp3Parts(o.opened, 1, call, info)
      fd == LowestFree(o.fds)
  IN  IF ~o.ok
      THEN /\ Throw("IOError") /\ fds' = o.fds
           /\ UNCHANGED <<opened, parts, cur, outFd, outFile>>
      ELSE /\ opened' = o.opened
           /\ IF ps.err # ""
              THEN /\ Throw(ps.err) /\ fds' = CloseAll(o.opened, o.fds)
                   /\ UNCHANGED <<parts, cur, outFd, outFile>>
              ELSE IF call.output = "buffer"
              THEN /\ Return(Flatten(ps.list)) /\ fds' = CloseAll(o.opened, o.fds)
                   /\ UNCHANGED <<parts, cur, outFd, outFile>>
              ELSE /\ parts' = ps.list
                   /\ cur' = [NoCursor EXCEPT !.i = 1, !.phase = "write"]
                   /\ outFile' = EmptyFile
                   /\ outFd' = fd /\ fds' = o.fds \cup {fd}
                   /\ pc' = "mp3Write" /\ UNCHANGED result

\* One iteration of for (const p of parts) fs.writeSync(fd, p).  After the
\* last part the output descriptor and the sources are closed.
Mp3WriteStep ==
  /\ pc = "mp3Write"
  /\ outFile' = FileAppend(outFile, parts[cur.i])
  /\ IF cur.i = Len(parts)
     THEN /\ Return(<<>>) /\ outFd' = Undefined
          /\ cur' = [cur EXCEPT !.phase = "end"]
          /\ fds' = CloseAll(opened, CloseOut(outFd, fds))
     ELSE /\ cur' = [cur EXCEPT !.i = @ + 1]
          /\ UNCHANGED <<pc, result, outFd, fds>>
  /\ UNCHANGED <<call, pending, firstInfo, idx, opened, parts>>
  /\ UNCHANGED aside

\* The validation loop from source i on: probe it up to the await, or leave
\* the loop when no source is left.
Mp3Validate(i, info) ==
  IF i <= Len(call.sources)
  THEN LET p == Probe(call.sources[i], fds)
       IN  /\ IF p.info.tag = "ok"
              THEN pending' = p.info /\ idx' = i /\ pc' = "mp3Loop" /\ UNCHANGED result
              ELSE Throw(p.info.tag) /\ UNCHANGED <<pending, idx>>
           /\ fds' = p.fds
           /\ UNCHANGED <<opened, parts, cur, outFd, outFile>>
  ELSE Mp3Assemble(info) /\ UNCHANGED <<pending, idx>>

\* info.sampleRate !== firstInfo.sampleRate || info.channels !== firstInfo.channels
Mp3Mismatch(info, first) ==
  info.sampleRate # first.sampleRate \/ info.channels # first.channels

\* info.bitrateKbps !== firstInfo.bitrateKbps
Mp3BitrateMismatch(info, first) == info.bitrateKbps # first.bitrateKbps

Mp3AfterFirst ==
  /\ pc = "mp3First"
  /\ firstInfo' = pending
  /\ IF pending.container # "mp3"
     THEN /\ Throw("NotMp3")
          /\ UNCHANGED <<pending, idx, opened, parts, cur, outFd, fds, outFile>>
     ELSE Mp3Validate(2, pending)
  /\ UNCHANGED call
  /\ UNCHANGED aside

\* Resumption after the probe of source idx in the validation loop.
Mp3Loop ==
  /\ pc = "mp3Loop"
  /\ IF pending.container # "mp3"
     THEN /\ Throw("NotAllMp3")
          /\ UNCHANGED <<pending, idx, opened, parts, cur, outFd, fds, outFile>>
     ELSE IF Mp3Mismatch(pending, firstInfo)
     THEN /\ Throw("ParameterMismatch")
          /\ UNCHANGED <<pending, idx, opened, parts, cur, outFd, fds, outFile>>
     ELSE IF Mp3BitrateMismatch(pending, firstInfo)
     THEN /\ Throw("BitrateMismatch")
          /\ UNCHANGED <<pending, idx, opened, parts, cur, outFd, fds, outFile>>
     ELSE Mp3Validate(idx + 1, firstInfo)
  /\ UNCHANGED <<call, firstInfo>>
  /\ UNCHANGED aside

\* ------------------------------------------------------------------ stitch
\* Entry: the empty-list check and the probe of sources[0], up to its await.
StitchStart ==
  /\ pc = "called" /\ call.op = "stitch"
  /\ IF call.sources = <<>>
     THEN Throw("NoSources") /\ UNCHANGED <<pending, fds>>
     ELSE LET p == Probe(call.sources[1], fds)
          IN  /\ fds' = p.fds
              /\ IF p.info.tag = "ok"
                 THEN pending' = p.info /\ pc' = "stitchFirst" /\ UNCHANGED result
                 ELSE Throw(p.info.tag) /\ UNCHANGED pending
  /\ UNCHANGED <<call, firstInfo, idx, opened, parts, cur, outFd, outFile>>
  /\ UNCHANGED aside

\* After the probe: return stitchMp3(...) / stitchWav(...), which runs the
\* engine up to its own first await, or throw.
StitchDispatch ==
  /\ pc = "stitchFirst"
  /\ IF pending.container = "mp3" THEN Mp3Entry
     ELSE IF pending.container = "wav" THEN WavEntry
     ELSE /\ Throw("UnsupportedContainer")
          /\ UNCHANGED <<call, pending, firstInfo, idx, opened, parts, cur, outFd, fds, outFile>>
          /\ UNCHANGED aside

\* ------------------------------------------------------------- the caller
\* After a call has settled the caller keeps its outcome and calls op with
\* the same sources and options, writing to a fresh output path.
Recall(op) ==
  /\ pc = "done" /\ ~prev.set
  /\ prev' = [set |-> TRUE, mixed |-> prev.mixed, op |-> call.op, result |-> result,
               outFile |-> outFile]
  /\ call' = [call EXCEPT !.op = op]
  /\ pc' = "called"
  /\ pending' = NoInfo /\ firstInfo' = NoInfo /\ idx' = 0 /\ opened' = <<>>
  /\ parts' = <<>> /\ cur' = NoCursor /\ outFd' = Undefined
  /\ result' = NoResult /\ outFile' = NoFile
  /\ UNCHANGED <<fds, other, closed>>

\* The caller of stitch calls an engine directly on the same arguments.
CallEngine ==
  /\ call.op = "stitch"
  /\ \E op \in {"stitchWav", "stitchMp3"} : Recall(op)

\* The caller repeats a settled call with nothing else in flight.
CallAgain ==
  /\ other.pc \in {"idle", "done"}
  /\ Recall(call.op)

\* The caller repeats a settled buffer-output call with a file as the output.
CallOtherMode ==
  /\ pc = "done" /\ ~prev.set /\ call.output = "buffer"
  /\ prev' = [set |-> TRUE, mixed |-> prev.mixed, op |-> call.op, result |-> result,
               outFile |-> outFile]
  /\ call' = [call EXCEPT !.output = "file"]
  /\ pc' = "called"
  /\ pending' = NoInfo /\ firstInfo' = NoInfo /\ idx' = 0 /\ opened' = <<>>
  /\ parts' = <<>> /\ cur' = NoCursor /\ outFd' = Undefined
  /\ result' = NoResult /\ outFile' = NoFile
  /\ UNCHANGED <<fds, other, closed>>

\* ---------------------------------------------------- io module, directly
IoPool == {WavA, WavB, MissingFile}

\* The caller calls openSource(source) and keeps the OpenedSource it returns;
\* a throw leaves nothing behind.
IoOpen ==
  /\ pc \in {"idle", "io"} /\ Len(opened) < MaxHandles
  /\ \E s \in IoPool :
       LET r == OpenSource(s, fds)
       IN  /\ opened' = IF r.ok THEN Append(opened, r.opened) ELSE opened
           /\ fds' = r.fds
  /\ pc' = "io"
  /\ UNCHANGED <<call, pending, firstInfo, idx, parts, cur, outFd, result, outFile>>
  /\ UNCHANGED aside

\* The caller calls closeSource on one of the OpenedSource objects it keeps,
\* whether or not it has closed it before.
IoClose ==
  /\ pc = "io" /\ Len(closed) < MaxCloses
  /\ \E k \in 1..Len(opened) :
       /\ fds' = CloseSource(opened[k], fds)
       /\ closed' = Append(closed, k)
  /\ UNCHANGED <<pc, call, pending, firstInfo, idx, opened, parts, cur, outFd, result,
                 outFile, other, prev>>

\* ------------------------------------------------------------ event loop
\* A second call of the same process.
InvokeConcurrent ==
  /\ pc = "idle"
  /\ \E c \in ConcCalls : call' = c
  /\ pc' = "called"
  /\ UNCHANGED <<pending, firstInfo, idx, opened, parts, cur, outFd, fds, result, outFile>>
  /\ UNCHANGED aside

\* The running invocation is at an await (or has not started, or has
\* settled) and the event loop resumes the other one.  The copy loops of
\* stitchWav and the write loop of stitchMp3 contain no await.
Switch ==
  /\ pc \notin {"wavCopy", "mp3Write"} /\ ~prev.set
  /\ other' = Context(pc, call, pending, firstInfo, idx, opened, parts, cur, outFd,
                      result, outFile)
  /\ pc' = other.pc /\ call' = other.call /\ pending' = other.pending
  /\ firstInfo' = other.firstInfo /\ idx' = other.idx /\ opened' = other.opened
  /\ parts' = other.parts /\ cur' = other.cur /\ outFd' = other.outFd
  /\ result' = other.result /\ outFile' = other.outFile
  /\ prev' = [prev EXCEPT !.mixed = @ \/ (pc \notin {"idle", "done"}
                                          /\ other.pc \notin {"idle", "done"})]
  /\ UNCHANGED <<fds, closed>>

NextConcurrent ==
  \/ InvokeConcurrent
  \/ Switch
  \/ CallAgain
  \/ ProbeCall
  \/ WavStart
  \/ WavAfterFirst
  \/ WavLoop
  \/ WavCopyStep
  \/ Mp3Start
  \/ Mp3AfterFirst
  \/ Mp3Loop

SpecConcurrent == Init /\ [][NextConcurrent]_vars

Next ==
  \/ IoOpen
  \/ IoClose
  \/ Invoke
  \/ StitchStart
  \/ StitchDispatch
  \/ CallEngine
  \/ ProbeCall
  \/ WavStart
  \/ WavAfterFirst
  \/ WavLoop
  \/ WavCopyStep
  \/ Mp3Start
  \/ Mp3AfterFirst
  \/ Mp3Loop
  \/ Mp3WriteStep

Spec == Init /\ [][Next]_vars

\* ------------------------------------------------------- streaming output
InvokeStream ==
  /\ pc = "idle"
  /\ \E c \in StreamCalls : call' = c
  /\ pc' = "called"
  /\ UNCHANGED <<pending, firstInfo, idx, opened, parts, cur, outFd, fds, result, outFile>>
  /\ UNCHANGED aside

\* fs.readSync or fs.writeSync throws inside the try of the output
\* descriptor: both finally blocks run and the call rejects.  What was
\* written before stays in the file.
OutputIoFails ==
  /\ pc \in {"wavCopy", "mp3Write"}
  /\ Throw("IoFailed")
  /\ outFd' = Undefined
  /\ fds' = CloseAll(opened, CloseOut(outFd, fds))
  /\ UNCHANGED <<call, pending, firstInfo, idx, opened, parts, cur, outFile>>
  /\ UNCHANGED aside

\* A step of the engines: the resumption of an await or one iteration of a
\* synchronous loop.
EngineStep ==
  \/ WavStart
  \/ WavAfterFirst
  \/ WavLoop
  \/ WavCopyStep
  \/ Mp3Start
  \/ Mp3AfterFirst
  \/ Mp3Loop
  \/ Mp3WriteStep

NextStream ==
  \/ InvokeStream
  \/ CallOtherMode
  \/ OutputIoFails
  \/ WavStart
  \/ WavAfterFirst
  \/ WavLoop
  \/ WavCopyStep
  \/ Mp3Start
  \/ Mp3AfterFirst
  \/ Mp3Loop
  \/ Mp3WriteStep

\* A started call keeps running: the event loop resumes every settled await
\* and the loops are synchronous code.  Nothing obliges the caller to call,
\* or a read or write to fail.
SpecStream == Init /\ [][NextStream]_vars /\ WF_vars(EngineStep)

\* ================================================================ properties
Done(op) == pc = "done" /\ call.op = op
Succeeded(op) == Done(op) /\ result.status = "ok"

\* The bytes the call produced: the returned buffer or the file at the path.
OutputBytes == IF call.output = "buffer" THEN result.out ELSE Flatten(outFile.segs)

NoOutput == result.out = <<>> /\ ~outFile.exists

ProbeOf(src) == Probe(src, {}).info

\* Every source probes as the given container with the parameters of the first.
SameWavParams(ss) ==
  \A i \in 1..Len(ss) :
    /\ ProbeOf(ss[i]).tag = "ok" /\ ProbeOf(ss[i]).container = "wav"
    /\ ~WavMismatch(ProbeOf(ss[i]), ProbeOf(ss[1]))

\* The data-chunk payload each WAV input was built with (the bytes present
\* in the source, which for a truncated source are fewer than declared).
DataPayload(src) ==
  CASE src = WavA -> <<1, 2, 3, 4>>
    [] src = WavB -> <<5, 6>>
    [] src = WavRate -> <<7, 8>>
    [] src = WavChannels -> <<7, 8, 9, 10>>
    [] src = WavBits -> <<7, 8>>
    [] src = WavTruncated -> <<11, 12, 13>>
    [] src = WavHighBit -> <<18, 19>>
HasDataChunk(src) ==
  src \in {WavA, WavB, WavRate, WavChannels, WavBits, WavTruncated, WavHighBit}

\* payload 1, gap, payload 2, gap, ..., payload n with gaps of gapLen zeros.
RECURSIVE PayloadsWithGaps(_, _)
PayloadsWithGaps(ss, gapLen) ==
  IF ss = <<>> THEN <<>>
  ELSE IF Len(ss) = 1 THEN DataPayload(ss[1])
  ELSE DataPayload(ss[1]) \o Zeros(gapLen) \o PayloadsWithGaps(Tail(ss), gapLen)

WavCase(gapCond) ==
  /\ call.op = "stitchWav" /\ call.sources # <<>>
  /\ gapCond
  /\ SameWavParams(call.sources)
  /\ \A i \in 1..Len(call.sources) : HasDataChunk(call.sources[i])

CanonicalIds(out) ==
  /\ SubSeq(out, 1, 4) = StrRIFF /\ SubSeq(out, 9, 12) = StrWAVE
  /\ SubSeq(out, 13, 16) = StrFmt /\ SubSeq(out, 37, 40) = StrData

\* C1: homogeneous WAV sources, gapMs = 0, buffer output: the call returns a
\* 44-byte canonical header followed by the data-chunk payload of each source
\* in input order, and nothing else.
C1_WavConcatExact ==
  (pc = "done" /\ WavCase(call.gapMs = 0) /\ call.output = "buffer") =>
    /\ result.status = "ok"
    /\ Len(result.out) >= WavHeaderBytes
    /\ CanonicalIds(result.out)
    /\ SubSeq(result.out, WavHeaderBytes + 1, Len(result.out))
         = PayloadsWithGaps(call.sources, 0)

C1_Witness ==
  /\ Succeeded("stitchWav") /\ WavCase(call.gapMs = 0) /\ call.output = "buffer"
  /\ Len(call.sources) = 2 /\ call.sources[1] = WavA /\ call.sources[2] = WavB

\* C2 as stated: with gap g > 0 the output is 44 + sum of data sizes
\* + (n-1) * floor(sampleRate * channels * (bits/8) * g / 1000) bytes long and
\* every gap region is zero.
C2_GapFloorAfterProduct ==
  (Succeeded("stitchWav") /\ WavCase(call.gapMs > 0)) =>
    SubSeq(OutputBytes, WavHeaderBytes + 1, Len(OutputBytes))
      = PayloadsWithGaps(call.sources,
          (firstInfo.sampleRate * firstInfo.channels * firstInfo.bitsPerSample * call.gapMs)
             \div 8000)

\* C2 amended: each gap is floor(sampleRate * channels * (bits/8) / 1000) * g
\* zero bytes (the floor is taken before multiplying by g), so the output is
\* the 44-byte header, then the payloads in order with that many zero bytes
\* between consecutive payloads.
C2_GapFloorBeforeProduct ==
  (Succeeded("stitchWav") /\ WavCase(call.gapMs > 0)) =>
    /\ Len(OutputBytes) >= WavHeaderBytes
    /\ SubSeq(OutputBytes, WavHeaderBytes + 1, Len(OutputBytes))
         = PayloadsWithGaps(call.sources,
             ((firstInfo.sampleRate * firstInfo.channels * firstInfo.bitsPerSample) \div 8000)
                * call.gapMs)

C2_Witness ==
  /\ Succeeded("stitchWav") /\ WavCase(call.gapMs > 0)
  /\ Len(call.sources) = 2
  /\ Len(OutputBytes) = WavHeaderBytes + 4 + 440 + 2

SameMp3Params(ss) ==
  \A i \in 1..Len(ss) :
    /\ ProbeOf(ss[i]).tag = "ok" /\ ProbeOf(ss[i]).container = "mp3"
    /\ ~Mp3Mismatch(ProbeOf(ss[i]), ProbeOf(ss[1]))
    /\ ~Mp3BitrateMismatch(ProbeOf(ss[i]), ProbeOf(ss[1]))

\* Offset of the first frame sync (0xFF, then a byte with its top three bits
\* set) at or after the ID3v2 tag, as each MP3 input was built.
FirstSync(src) ==
  CASE src = Mp3A -> 0
    [] src = Mp3Tagged -> 13
    [] src = Mp3TagSync -> 12
    [] src = Mp3Junk -> 1
    [] src = Mp3Tiny -> 3
    [] src = Mp3Rate -> 0
    [] src = Mp3Stereo -> 0
    [] src = Mp3Kbps -> 0
    [] src = Mp3Free -> 0
    [] src = Mp332k -> 0

FromSync(src) == SubSeq(src.bytes, FirstSync(src) + 1, Len(src.bytes))

RECURSIVE StrippedTail(_)
StrippedTail(ss) == IF ss = <<>> THEN <<>> ELSE FromSync(Head(ss)) \o StrippedTail(Tail(ss))

Mp3Case ==
  call.op = "stitchMp3" /\ call.sources # <<>> /\ SameMp3Params(call.sources)

WavMismatchCase ==
  /\ call.op = "stitchWav" /\ call.sources # <<>>
  /\ \A i \in 1..Len(call.sources) :
       ProbeOf(call.sources[i]).tag = "ok" /\ ProbeOf(call.sources[i]).container = "wav"
  /\ \E i \in 1..Len(call.sources) :
       \/ ProbeOf(call.sources[i]).sampleRate # ProbeOf(call.sources[1]).sampleRate
       \/ ProbeOf(call.sources[i]).channels # ProbeOf(call.sources[1]).channels
       \/ ProbeOf(call.sources[i]).bitsPerSample # ProbeOf(call.sources[1]).bitsPerSample
Mp3MismatchCase ==
  /\ call.op = "stitchMp3" /\ call.sources # <<>>
  /\ \A i \in 1..Len(call.sources) :
       ProbeOf(call.sources[i]).tag = "ok" /\ ProbeOf(call.sources[i]).container = "mp3"
  /\ \E i \in 1..Len(call.sources) :
       \/ ProbeOf(call.sources[i]).sampleRate # ProbeOf(call.sources[1]).sampleRate
       \/ ProbeOf(call.sources[i]).channels # ProbeOf(call.sources[1]).channels
       \/ ProbeOf(call.sources[i]).bitrateKbps # ProbeOf(call.sources[1]).bitrateKbps

\* C4: when a source differs from the first in sampleRate, channels or
\* bitsPerSample (WAV) or in sampleRate, channels or bitrateKbps (MP3), no
\* output exists at any point of the call and the call ends with a
\* parameter-mismatch error.
C4_MismatchFailsBeforeOutput ==
  (WavMismatchCase \/ Mp3MismatchCase) =>
    /\ NoOutput
    /\ result.status # "ok"
    /\ pc = "done" => /\ result.status = "error"
                      /\ result.err \in {"ParameterMismatch", "BitrateMismatch"}

C4_Witness ==
  /\ pc = "done" /\ WavMismatchCase /\ call.output = "file"
  /\ Len(call.sources) = 2 /\ call.sources[2] = WavBits
  /\ result.err = "ParameterMismatch"

\* C5 as stated: once a call has returned or thrown, no descriptor it opened
\* is still open.
C5_AllHandlesClosed == pc = "done" => fds = {}

\* C6 as stated: in the output of a successful stitchWav call the data size
\* field is the number of bytes after the header and the RIFF size is 36 more.
C6_HeaderSizesMatchPayload ==
  Succeeded("stitchWav") =>
    /\ ReadUInt32LE(OutputBytes, 40) = Len(OutputBytes) - WavHeaderBytes
    /\ ReadUInt32LE(OutputBytes, 4) = 36 + Len(OutputBytes) - WavHeaderBytes

\* C7: probing the output of a successful stitchWav call yields container
\* wav with the sampleRate, channels and bitsPerSample of the inputs.
C7_ProbeOfWavOutput ==
  Succeeded("stitchWav") =>
    LET info == ProbeHead(Subarray(OutputBytes, 0, HeadWindow))
        src == ProbeOf(call.sources[Len(call.sources)])
    IN  /\ info.tag = "ok" /\ info.container = "wav"
        /\ info.sampleRate = src.sampleRate
        /\ info.channels = src.channels
        /\ info.bitsPerSample = src.bitsPerSample

C7_Witness ==
  /\ Succeeded("stitchWav") /\ call.gapMs > 0 /\ call.output = "file"
  /\ Len(call.sources) = 2 /\ call.sources[1] = WavChannels

\* C8 as stated: probing the output of a successful stitchMp3 call yields
\* container mp3 with the sampleRate, channels and bitrateKbps of the inputs.
C8_ProbeOfMp3Output ==
  Succeeded("stitchMp3") =>
    LET info == ProbeHead(Subarray(OutputBytes, 0, HeadWindow))
        src == ProbeOf(call.sources[1])
    IN  /\ info.tag = "ok" /\ info.container = "mp3"
        /\ info.sampleRate = src.sampleRate
        /\ info.channels = src.channels
        /\ info.bitrateKbps = src.bitrateKbps

\* The RIFF....WAVE magic, byte for byte.
HasWavMagic(bytes) ==
  Len(bytes) >= 12 /\ SubSeq(bytes, 1, 4) = StrRIFF /\ SubSeq(bytes, 9, 12) = StrWAVE
\* A frame sync anywhere in the head window.
HasSyncInHead(bytes) ==
  \E i \in 0..(Min(Len(bytes), HeadWindow) - 2) : IsSync(bytes, i)

\* C9 as stated: a buffer with neither the RIFF....WAVE magic nor a frame
\* sync in the header window is rejected with an unsupported-format error.
C9_UnrecognizedRejected ==
  (Done("probe") /\ call.sources[1].exists
     /\ ~HasWavMagic(call.sources[1].bytes) /\ ~HasSyncInHead(call.sources[1].bytes)) =>
    result.status = "error" /\ result.err = "UnsupportedFormat"

\* RIFF/WAVE magic and a fmt chunk whose format code is not 1.
IsNonPcmWav(bytes) ==
  /\ Len(bytes) >= WavHeaderBytes /\ HasWavMagic(bytes)
  /\ SubSeq(bytes, 13, 16) = StrFmt /\ ReadUInt16LE(bytes, 20) # 1

\* C10 as stated: a non-PCM WAV is rejected with a malformed-header error and
\* never classified.
C10_NonPcmRejected ==
  (Done("probe") /\ IsNonPcmWav(call.sources[1].bytes)) =>
    result.status = "error" /\ result.err = "MalformedHeader"

\* The later call ended as the earlier one: same rejection or same returned
\* bytes, same file at the output path.
SameOutcomeAsBefore == result = prev.result /\ outFile = prev.outFile

FirstProbesAs(container) ==
  /\ call.sources # <<>>
  /\ ProbeOf(call.sources[1]).tag = "ok"
  /\ ProbeOf(call.sources[1]).container = container

\* stitch's outcome is the outcome of the engine its first source selects.
StitchAsEngine ==
  (pc = "done" /\ prev.set /\ prev.op = "stitch") =>
    /\ (FirstProbesAs("mp3") /\ call.op = "stitchMp3") => SameOutcomeAsBefore
    /\ (FirstProbesAs("wav") /\ call.op = "stitchWav") => SameOutcomeAsBefore

\* C11 as stated: stitch ends as stitchMp3 on the same arguments when
\* sources[0] probes as MP3, as stitchWav when it probes as WAV, and for any
\* other readable first source it fails with an unsupported-container error
\* and produces no output.
C11_StitchDispatch ==
  /\ StitchAsEngine
  /\ (Done("stitch") /\ call.sources # <<>> /\ call.sources[1].exists
        /\ ProbeOf(call.sources[1]).tag # "ok") =>
       /\ result.status = "error"
       /\ result.err \in {"UnsupportedFormat", "UnsupportedContainer"}
       /\ NoOutput

\* The frame count of the claim: gapMs / frameDurationMs rounded by the policy,
\* with frameDurationMs = 1152 / sampleRate * 1000, as the integer f that the
\* rounding of the exact quotient num / den defines.
ClaimedFrames(gapMs, sampleRate, gapRounding) ==
  LET num == gapMs * sampleRate
      den == SamplesPerFrame * 1000
  IN  CHOOSE f \in 0..(gapMs + 1) :
        IF gapRounding = "floor" THEN f * den <= num /\ num < (f + 1) * den
        ELSE IF gapRounding = "ceil" THEN (f - 1) * den < num /\ num <= f * den
        ELSE 2 * f * den <= 2 * num + den /\ 2 * num + den < 2 * (f + 1) * den

\* The copies of the claim: 0 for 0 frames, else the least n >= 1 with
\* n * 100 ms >= frames * frameDurationMs.
ClaimedCopies(frames, sampleRate) ==
  IF frames = 0 THEN 0
  ELSE CHOOSE n \in 1..(frames + 1) :
         /\ n * AssetMs * sampleRate >= frames * SamplesPerFrame * 1000
         /\ n = 1 \/ (n - 1) * AssetMs * sampleRate < frames * SamplesPerFrame * 1000

\* part 1, fill, part 2, fill, ..., part n.
RECURSIVE JoinWith(_, _)
JoinWith(bufs, fill) ==
  IF bufs = <<>> THEN <<>>
  ELSE IF Len(bufs) = 1 THEN bufs[1]
  ELSE bufs[1] \o fill \o JoinWith(Tail(bufs), fill)

\* The payload stitchMp3 takes from source i of the call.
Mp3Payload(i) ==
  IF i = 1 /\ call.keepFirstId3 THEN call.sources[1].bytes ELSE FromSync(call.sources[i])

\* C12: with gapMs > 0 every gap of a stitchMp3 output holds exactly
\* copies whole silence clips, copies = 0 when the rounded frame count is 0
\* and else max(1, ceil(frames * frameDurationMs / 100)), so that
\* copies * 100 ms >= frames * frameDurationMs.
C12_SilenceCopies ==
  (Succeeded("stitchMp3") /\ Mp3Case /\ call.gapMs > 0) =>
    LET frames == ClaimedFrames(call.gapMs, firstInfo.sampleRate, call.gapRounding)
        copies == ClaimedCopies(frames, firstInfo.sampleRate)
        clip == LoadSilenceAsset(firstInfo, call.silence).bytes
    IN  /\ OutputBytes
             = JoinWith([i \in 1..Len(call.sources) |-> Mp3Payload(i)], Repeat(clip, copies))
        /\ copies * AssetMs * firstInfo.sampleRate >= frames * SamplesPerFrame * 1000

C12_Witness ==
  /\ Succeeded("stitchMp3") /\ Mp3Case /\ call.gapMs = 100 /\ call.gapRounding = "nearest"
  /\ call.silence = <<>>
  /\ call.sources = <<Mp3A, Mp3Tagged>>
  /\ Len(OutputBytes) = 6 + 2 * 6 + 6

\* C13 as stated: with options.silence supplied (bytes, or the path of a
\* readable file) the call succeeds whatever the sources' parameters, and
\* every gap is filled with copies of exactly those bytes.
C13_OverrideUsed ==
  (Done("stitchMp3") /\ Mp3Case /\ call.gapMs > 0 /\ Len(call.sources) > 1
     /\ call.silence # <<>> /\ call.silence[1].exists) =>
    /\ result.status = "ok"
    /\ OutputBytes
         = JoinWith([i \in 1..Len(call.sources) |-> Mp3Payload(i)],
                    Repeat(call.silence[1].bytes,
                           SilenceRepeats(GapFrames(call.gapMs, firstInfo.sampleRate,
                                                    call.gapRounding),
                                          firstInfo.sampleRate)))

\* The catalog holds a clip for the parameters the probe reported.
HasBundledAsset(info) ==
  /\ info.sampleRate \in BundledRates
  /\ info.channels \in {1, 2}
  /\ info.bitrateKbps \in BundledBitrates

\* C14 as stated: more than one source, gapMs > 0, no override and no bundled
\* clip for the sources' own combination: the call fails with a
\* silence-asset-not-found error and produces no output.
C14_MissingAssetFails ==
  (Done("stitchMp3") /\ Mp3Case /\ Len(call.sources) > 1 /\ call.gapMs > 0
     /\ call.silence = <<>> /\ ~HasBundledAsset(ProbeOf(call.sources[1]))) =>
    /\ result.status = "error" /\ result.err = "SilenceAssetNotFound"
    /\ NoOutput

\* C15: stitch, stitchWav and stitchMp3 called with an empty list fail; at no
\* point of such a call is a source open, a descriptor open, or any output
\* returned, created or written.
C15_EmptyListFails ==
  (call.op \in {"stitch", "stitchWav", "stitchMp3"} /\ call.sources = <<>>) =>
    /\ pc \in {"called", "done"}
    /\ pc = "done" => result.status = "error" /\ result.err = "NoSources"
    /\ opened = <<>> /\ fds = {} /\ outFd = Undefined
    /\ NoOutput

C15_Witness ==
  /\ Done("stitchWav") /\ call.sources = <<>> /\ call.output = "file"
  /\ result.err = "NoSources" /\ ~outFile.exists

\* The descriptors an invocation holds while it is suspended or running
\* between openSource and closeSource: its opened files and its output file.
Held(p, os, ofd) ==
  IF p \in {"wavLoop", "wavCopy"}
  THEN {os[i].fd : i \in {j \in 1..Len(os) : os[j].kind = "file"}}
       \cup (IF ofd = Undefined THEN {} ELSE {ofd})
  ELSE {}

\* C16: of two invocations interleaved at their awaits, each ends as the same
\* call ends when it runs alone, and the descriptors each one holds stay open
\* and are held by it alone.
C16_ConcurrentCallsIndependent ==
  /\ (pc = "done" /\ prev.set) => SameOutcomeAsBefore
  /\ Held(pc, opened, outFd) \subseteq fds
  /\ Held(other.pc, other.opened, other.outFd) \subseteq fds
  /\ Held(pc, opened, outFd) \cap Held(other.pc, other.opened, other.outFd) = {}

C16_Witness ==
  /\ pc = "done" /\ prev.set /\ prev.mixed
  /\ call.op = "stitchWav" /\ call.output = "file" /\ call.sources = <<WavB, WavB>>
  /\ result.status = "ok"
  /\ other.pc = "done" /\ other.call.op = "stitchWav" /\ other.result.status = "ok"
  /\ other.call.sources = <<WavB, WavA>>

C18_CloseIdempotent ==
  [][\A k \in 1..Len(opened) :
       (closed' = Append(closed, k) /\ \E j \in 1..Len(closed) : closed[j] = k)
         => fds' = fds]_vars

\* Sum of the sizes the data chunks of the sources declare.
RECURSIVE DeclaredTotal(_)
DeclaredTotal(ss) ==
  IF ss = <<>> THEN 0 ELSE ProbeOf(Head(ss)).dataBytes + DeclaredTotal(Tail(ss))

\* C19: with gapMs > 0 and bytesPerMs = floor(sampleRate * channels *
\* (bitsPerSample / 8) / 1000), the data size in the header of a stitchWav
\* output is the declared sizes plus bytesPerMs * gapMs for each pair of
\* consecutive sources, and exactly bytesPerMs * gapMs zero bytes lie between
\* two consecutive payloads.
C19_GapCountedAndEmitted ==
  (Succeeded("stitchWav") /\ WavCase(call.gapMs > 0)) =>
    LET bytesPerMs ==
          (firstInfo.sampleRate * firstInfo.channels * firstInfo.bitsPerSample) \div 8000
        n == Len(call.sources)
    IN  /\ ReadUInt32LE(OutputBytes, 40)
             = DeclaredTotal(call.sources) + (n - 1) * (bytesPerMs * call.gapMs)
        /\ SubSeq(OutputBytes, WavHeaderBytes + 1, Len(OutputBytes))
             = PayloadsWithGaps(call.sources, bytesPerMs * call.gapMs)

C19_Witness ==
  /\ Succeeded("stitchWav") /\ call.gapMs = 5 /\ call.output = "file"
  /\ call.sources = <<WavBits, WavBits>>
  /\ ReadUInt32LE(OutputBytes, 40) = 2 + 220 + 2
  /\ Len(OutputBytes) = WavHeaderBytes + 2 + 220 + 2

\* The offsets of the scan of parseMp3Header that hold a sync pattern.
SyncCandidates(head) ==
  {i \in SkipId3Size(head)..(Min(Len(head), SkipId3Size(head) + Mp3ScanWindow) - 4) :
     IsSync(head, i)}

\* C20 as stated: a buffer whose sync candidates all carry bitrate index 0 or
\* 15 is not classified as MP3.
C20_InvalidBitrateSkipped ==
  (Done("probe") /\ call.sources[1].exists
     /\ LET head == Subarray(call.sources[1].bytes, 0, HeadWindow)
        IN  /\ SyncCandidates(head) # {}
            /\ \A i \in SyncCandidates(head) : BitrateIndex(head, i) \in {0, 15}) =>
    ~(result.status = "ok" /\ result.info.container = "mp3")

\* The length of the ID3v2 tag at the start of bytes: 10 plus the 28-bit
\* synchsafe size of bytes 6..9 when the bytes start with "ID3", else 0.
Id3Length(bytes) ==
  IF Len(bytes) >= 10 /\ SubSeq(bytes, 1, 3) = StrID3
  THEN 10 + bytes[7] * 2097152 + bytes[8] * 16384 + bytes[9] * 128 + bytes[10]
  ELSE 0

\* The first offset at or after from where 0xFF is followed by a byte with its
\* top three bits set.
SyncAtOrAfter(bytes, from) ==
  LET at == {j \in from..(Len(bytes) - 2) : bytes[j + 1] = 255 /\ bytes[j + 2] >= 224}
  IN  CHOOSE j \in at : \A k \in at : j <= k

\* Where the bytes taken from source i of the call start, as claimed.
ClaimedStart(i) ==
  IF i = 1 /\ call.keepFirstId3 THEN 0
  ELSE SyncAtOrAfter(call.sources[i].bytes, Id3Length(call.sources[i].bytes))

\* C21: the bytes stitchMp3 copies from source i run to the end of the source
\* and start at offset 0 only for the first source with keepFirstId3 true;
\* from every other source they start at the first frame sync at or after the
\* end of its ID3v2 tag, so no byte of that tag reaches the output.
C21_PayloadStartsAfterTag ==
  (Succeeded("stitchMp3") /\ Mp3Case) =>
    LET n == Len(call.sources)
        frames == GapFrames(call.gapMs, firstInfo.sampleRate, call.gapRounding)
        fill == IF call.gapMs > 0 /\ frames > 0
                THEN Repeat(LoadSilenceAsset(firstInfo, call.silence).bytes,
                            SilenceRepeats(frames, firstInfo.sampleRate))
                ELSE <<>>
        taken == [i \in 1..n |->
                    SubSeq(call.sources[i].bytes, ClaimedStart(i) + 1,
                           Len(call.sources[i].bytes))]
    IN  /\ OutputBytes = JoinWith(taken, fill)
        /\ \A i \in 1..n :
             (i > 1 \/ ~call.keepFirstId3) => ClaimedStart(i) >= Id3Length(call.sources[i].bytes)

\* A tagged source whose tag holds a sync pattern, first without keepFirstId3
\* and again as the second source: neither tag is in the output.
C21_Witness ==
  /\ Succeeded("stitchMp3") /\ Mp3Case /\ ~call.keepFirstId3
  /\ call.sources = <<Mp3TagSync, Mp3TagSync>>
  /\ OutputBytes = FrameHeader(9, 0, 3) \o <<7, 8>> \o FrameHeader(9, 0, 3) \o <<7, 8>>

\* Walking the chunks of bytes from offset, inside the 8192-byte head, reaches
\* a chunk whose id is the four bytes 'data'.
RECURSIVE WalkFindsData(_, _)
WalkFindsData(bytes, offset) ==
  IF offset + 8 > Min(Len(bytes), HeadWindow) THEN FALSE
  ELSE IF SubSeq(bytes, offset + 1, offset + 4) = StrData THEN TRUE
  ELSE WalkFindsData(bytes, offset + 8 + ReadUInt32LE(bytes, offset + 4))

\* The call is stitchWav on WAV sources of equal parameters, one of which has
\* no data chunk in its head.
MissingDataCase ==
  /\ call.op = "stitchWav" /\ call.sources # <<>> /\ SameWavParams(call.sources)
  /\ \E i \in 1..Len(call.sources) : ~WalkFindsData(call.sources[i].bytes, 12)

\* C22: when the chunk walk of some source finds no 'data' chunk in the first
\* 8192 bytes, stitchWav fails with the data-chunk-not-found error, returns
\* no buffer and leaves no output file.
C22_MissingDataChunkFails ==
  (pc = "done" /\ MissingDataCase) =>
    result.status = "error" /\ result.err = "DataChunkNotFound" /\ NoOutput

RECURSIVE FileLen(_)
FileLen(f) ==
  IF f.segs = <<>> THEN 0
  ELSE BufLen(Head(f.segs)) + FileLen([f EXCEPT !.segs = Tail(@)])

\* C23: in file-output mode of stitchWav no step reads more than 65536 bytes
\* of a source payload or appends more than 65536 bytes (payload or gap
\* zeros) to the output, whatever the sizes of the sources and of the gap.
C23_TransfersBounded ==
  [][(call.op = "stitchWav" /\ call.output = "file" /\ pc = "wavCopy") =>
       /\ FileLen(outFile') - FileLen(outFile) <= ChunkSize
       /\ (cur'.i = cur.i /\ cur'.phase = "copy") => cur'.position - cur.position <= ChunkSize
    ]_vars

\* A payload and a gap that are each longer than one chunk: the first chunk of
\* the gap is written and 24 bytes of it are left.
C23_Witness ==
  /\ pc = "wavCopy" /\ call.op = "stitchWav" /\ call.output = "file"
  /\ call.sources = <<WavBig, WavBig>> /\ call.gapMs = 745
  /\ cur.i = 1 /\ cur.phase = "gap" /\ cur.gapBytes = 88 * 745 - ChunkSize
  /\ FileLen(outFile) = WavHeaderBytes + BigLen + ChunkSize

\* ---------------------------------------------------------------------------
\* C24: in file-output mode stitchMp3 streams in bounded chunks: every read
\* from a source and every write to the output transfers at most a fixed chunk
\* size, so the source data held at once does not grow with the size of a
\* source or with the number of sources.  Stated for the buffers the call holds
\* while it writes the output file: each is at most one 64 KiB chunk, and
\* together they are at most one chunk.
RECURSIVE HeldBytes(_)
HeldBytes(ps) == IF ps = <<>> THEN 0 ELSE BufLen(Head(ps)) + HeldBytes(Tail(ps))
C24_Mp3TransfersBounded ==
  (call.op = "stitchMp3" /\ call.output = "file" /\ pc = "mp3Write")
    => /\ \A i \in 1..Len(parts) : BufLen(parts[i]) <= ChunkSize
       /\ HeldBytes(parts) <= ChunkSize

\* ---------------------------------------------------------------------------
\* C25: for the same sources and the same options apart from the output
\* target, a successful file-output call leaves in the target file exactly the
\* bytes the buffer-output call returns, and one mode succeeds exactly when
\* the other does.  The caller makes the buffer call, then the same call with
\* a file target (prev is the buffer call's outcome).  A file call that ends
\* without an I/O failure ends as the buffer call did, with the same bytes;
\* and after a buffer call that succeeded, a file call that is in its output
\* loop has written less than the buffer call returned, all of it the same
\* bytes, and its next iteration changes the state.
FileCallAfterBuffer == prev.set /\ call.output = "file" /\ prev.op = call.op
ProperPrefix(a, b) == Len(a) < Len(b) /\ SubSeq(b, 1, Len(a)) = a
C25_ModesAgree ==
  FileCallAfterBuffer =>
    /\ (pc = "done" /\ result.err # "IoFailed")
         => /\ result.status = prev.result.status
            /\ result.err = prev.result.err
            /\ result.status = "ok" => Flatten(outFile.segs) = prev.result.out
    /\ (pc \in {"wavCopy", "mp3Write"} /\ prev.result.status = "ok")
         => /\ ProperPrefix(Flatten(outFile.segs), prev.result.out)
            /\ ENABLED <<WavCopyStep \/ Mp3WriteStep>>_vars

\* ---------------------------------------------------------------------------
\* C27: every stitchWav call in file-output mode terminates: the payload copy
\* loop makes progress on each iteration and ends for every source, also one
\* that yields fewer bytes than its data chunk declares, and the gap loop ends
\* for every gapMs.  The loops are synchronous code, so an iteration that
\* changes nothing is repeated forever: in every state of the loops the next
\* iteration changes the state, because its read or its write is not empty.
C27_CopyLoopProgress ==
  (call.op = "stitchWav" /\ pc = "wavCopy")
    => /\ ENABLED <<WavCopyStep>>_vars
       /\ cur.phase = "copy" =>
            BufLen(ReadPacked(opened[cur.i], cur.position, ToRead(cur.remaining))) > 0
       /\ cur.phase = "gap" => Min(ChunkSize, cur.gapBytes) > 0

\* ---------------------------------------------------------------------------
\* C26: in file-output mode, once stitchWav or stitchMp3 has opened the output
\* file descriptor, that descriptor is closed before the call returns or
\* throws, including when a source read or an output write fails partway
\* through; the partially written file is left in place, not deleted.  Stated
\* for every step that settles a call holding an output descriptor: the
\* descriptor is not open afterwards, the file exists, and a call that throws
\* leaves in the file what had been written.
C26_OutputClosedOnEveryExit ==
  [][(outFd # Undefined /\ pc # "done" /\ pc' = "done")
       => /\ outFd \notin fds'
          /\ outFd' = Undefined
          /\ outFile'.exists
          /\ result'.status = "error" => outFile' = outFile]_vars

\* A read or write of stitchWav failed after the first chunk of a large source
\* was copied: the call has thrown, the file holds the header and that chunk.
C26_Witness ==
  /\ pc = "done" /\ call.output = "file" /\ result.err = "IoFailed"
  /\ call.op = "stitchWav" /\ call.sources = <<WavBig, WavTruncated>>
  /\ cur.i = 1 /\ cur.phase = "copy" /\ cur.remaining = BigLen - ChunkSize
  /\ FileLen(outFile) = WavHeaderBytes + ChunkSize
  /\ fds = {}

\* ---------------------------------------------------------------------------
\* C28: when the total payload of a stitchWav call (the declared data sizes
\* plus all gap bytes) is too large for 36 + totalPayload to fit in an
\* unsigned 32-bit field, the call fails before any output is written or
\* returned; it never emits a header whose size fields are the total reduced
\* modulo 2^32.
\*
\* floor((2^32 - 1 - c) / k) for k >= 2 and 0 <= c < 2^31, by long division
\* from 2^31 - 1.
RoomQuotient(k, c) ==
  LET q == 2147483647 \div k
      r == 2147483647 % k
      j == IF 2 * r + 1 >= c THEN 0 ELSE (c - 2 * r - 1 + k - 1) \div k
  IN  2 * q - j + (2 * r + 1 - c + j * k) \div k

\* 36 + declared sizes + (sources - 1) * bytesPerMs * gapMs > 2^32 - 1.
TotalTooLarge ==
  LET bytesPerMs ==
        (ProbeOf(call.sources[1]).sampleRate * ProbeOf(call.sources[1]).channels
         * ProbeOf(call.sources[1]).bitsPerSample) \div 8000
      k == (Len(call.sources) - 1) * bytesPerMs
  IN  /\ call.gapMs > 0 /\ k >= 2
      /\ call.gapMs > RoomQuotient(k, 36 + DeclaredTotal(call.sources))

C28_OversizeTotalFails ==
  (WavCase(TRUE) /\ TotalTooLarge)
    => /\ pc # "wavCopy"
       /\ NoOutput
       /\ pc = "done" => result.status = "error" /\ result.err = "RangeError"

\* Two sources joined by a gap that fits in 32 bits on its own, with a total
\* four bytes too large: the file call has thrown and there is no file.
C28_Witness ==
  /\ Done("stitchWav") /\ call.output = "file"
  /\ call.sources = <<WavTruncated, WavTruncated>> /\ call.gapMs = 48806446
  /\ result.err = "RangeError" /\ NoOutput /\ fds = {}

\* ---------------------------------------------------------------------------
\* C29: in every stitchMp3 output the source payloads appear in input order,
\* silence copies appear only between two consecutive source payloads and the
\* same number of copies in every gap, never before the first or after the
\* last payload, and with gapMs = 0 or a single source the output contains no
\* silence bytes at all.  Stated for the buffers a file call writes, in the
\* order it writes them, and for the bytes a call of either mode produces.
GapClip == LoadSilenceAsset(firstInfo, call.silence).bytes

\* The buffers are the n payloads in input order with per copies of the clip
\* after each payload but the last.
Interleaved(bufs, n, per) ==
  /\ Len(bufs) = n + (n - 1) * per
  /\ \A i \in 1..n : Unpack(bufs[1 + (i - 1) * (per + 1)]) = Mp3Payload(i)
  /\ \A j \in 1..Len(bufs) : (j - 1) % (per + 1) # 0 => Unpack(bufs[j]) = GapClip

RECURSIVE PayloadBytes(_)
PayloadBytes(i) == IF i = 0 THEN 0 ELSE Len(Mp3Payload(i)) + PayloadBytes(i - 1)

====
